---------------------------- MODULE Spec2Model ----------------------------
(***************************************************************************)
(* The key-chord codec of src/event.rs: Event::from_str (with its helper   *)
(* Event::event_with_modifiers) and the Display implementation of Event.   *)
(*                                                                         *)
(* A Rust string is modelled as the sequence of its Unicode code points;   *)
(* str::len is the UTF-8 byte length computed from them.  KeyModifiers is  *)
(* the u8 bit-set of crossterm, KeyCode and Event are tagged records.      *)
(***************************************************************************)
EXTENDS Integers, Sequences, FiniteSets, TLC

(***************************************************************************)
(* Strings                                                                 *)
(***************************************************************************)

\* The printable ASCII characters 0x20..0x5F and 0x61..0x7E, in code-point order
\* (0x60, the backquote, occurs in no literal of the source).
AsciiLow == " !\"#$%&'()*+,-./0123456789:;<=>?@ABCDEFGHIJKLMNOPQRSTUVWXYZ[\\]^_"
AsciiHigh == "abcdefghijklmnopqrstuvwxyz{|}~"

\* The code point of each of these characters.
CodePoints ==
    [ch \in {SubSeq(AsciiLow, i, i) : i \in 1..Len(AsciiLow)}
              \cup {SubSeq(AsciiHigh, i, i) : i \in 1..Len(AsciiHigh)} |->
        IF \E i \in 1..Len(AsciiLow) : SubSeq(AsciiLow, i, i) = ch
        THEN 31 + (CHOOSE i \in 1..Len(AsciiLow) : SubSeq(AsciiLow, i, i) = ch)
        ELSE 96 + (CHOOSE i \in 1..Len(AsciiHigh) : SubSeq(AsciiHigh, i, i) = ch)]

\* The code point of a one-character literal.
Ord(ch) == CodePoints[ch]

\* A string literal of the source as a sequence of code points.
Str(lit) == [i \in 1..Len(lit) |-> Ord(SubSeq(lit, i, i))]

\* char::len_utf8
len_utf8(c) == IF c < 128 THEN 1 ELSE IF c < 2048 THEN 2 ELSE IF c < 65536 THEN 3 ELSE 4

\* str::len: the length in bytes, not in characters.
RECURSIVE str_len(_)
str_len(s) == IF s = <<>> THEN 0 ELSE len_utf8(Head(s)) + str_len(Tail(s))

\* A variant of is_ascii that accepts letters and digits only
\* (char::is_ascii_alphanumeric).
is_ascii_alphanumeric(c) ==
    \/ c \in 48..57
    \/ c \in 65..90
    \/ c \in 97..122

\* char::is_ascii
is_ascii(c) == c <= 127

\* The separator of s.split('+').
Plus == Ord("+")

\* str::split(char): the substrings between the separators; never empty.
RECURSIVE split(_, _)
split(s, sep) ==
    IF \E i \in 1..Len(s) : s[i] = sep
    THEN LET i == CHOOSE j \in 1..Len(s) : s[j] = sep /\ \A k \in 1..(j - 1) : s[k] # sep
         IN  <<SubSeq(s, 1, i - 1)>> \o split(SubSeq(s, i + 1, Len(s)), sep)
    ELSE <<s>>

(***************************************************************************)
(* KeyModifiers: the bit-set of crossterm                                  *)
(***************************************************************************)
NONE == 0
SHIFT == 1
CONTROL == 2
ALT == 4
SUPER == 8
HYPER == 16
META == 32

\* A variant of the fold's step: acc ^ m in place of acc | m.
RECURSIVE BitXor(_, _)
BitXor(a, b) ==
    IF a = 0 THEN b
    ELSE IF b = 0 THEN a
    ELSE (IF (a % 2) # (b % 2) THEN 1 ELSE 0) + 2 * BitXor(a \div 2, b \div 2)

\* acc | m on the bits of a u8
RECURSIVE BitOr(_, _)
BitOr(a, b) ==
    IF a = 0 THEN b
    ELSE IF b = 0 THEN a
    ELSE (IF a % 2 = 1 \/ b % 2 = 1 THEN 1 ELSE 0) + 2 * BitOr(a \div 2, b \div 2)

(***************************************************************************)
(* KeyCode, Event, AppError, Result                                        *)
(***************************************************************************)
Named(n) == [kind |-> n]
F(n) == [kind |-> "F", n |-> n]
Char(c) == [kind |-> "Char", c |-> c]

Key(code, modifiers) == [tag |-> "Key", code |-> code, mods |-> modifiers]
Unit(variant) == [tag |-> variant]
Resize(width, height) == [tag |-> "Resize", width |-> width, height |-> height]
Paste(s) == [tag |-> "Paste", text |-> s]

InvalidEvent(s) == [tag |-> "InvalidEvent", token |-> s]
Ok(v) == [tag |-> "Ok", val |-> v]
Err(e) == [tag |-> "Err", val |-> e]

(***************************************************************************)
(* Event::event_with_modifiers                                             *)
(***************************************************************************)

\* The string arms of the match, in source order: <<pattern, KeyCode>>.
NamedKeys ==
    << <<Str("backspace"), Named("Backspace")>>,
       <<Str("enter"),     Named("Enter")>>,
       <<Str("left"),      Named("Left")>>,
       <<Str("right"),     Named("Right")>>,
       <<Str("up"),        Named("Up")>>,
       <<Str("down"),      Named("Down")>>,
       <<Str("home"),      Named("Home")>>,
       <<Str("end"),       Named("End")>>,
       <<Str("page_up"),   Named("PageUp")>>,
       <<Str("page_down"), Named("PageDown")>>,
       <<Str("tab"),       Named("Tab")>>,
       <<Str("back_tab"),  Named("BackTab")>>,
       <<Str("delete"),    Named("Delete")>>,
       <<Str("insert"),    Named("Insert")>>,
       <<Str("null"),      Named("Null")>>,
       <<Str("esc"),       Named("Esc")>>,
       <<Str("f1"),        F(1)>>,
       <<Str("f2"),        F(2)>>,
       <<Str("f3"),        F(3)>>,
       <<Str("f4"),        F(4)>>,
       <<Str("f5"),        F(5)>>,
       <<Str("f6"),        F(6)>>,
       <<Str("f7"),        F(7)>>,
       <<Str("f8"),        F(8)>>,
       <<Str("f9"),        F(9)>>,
       <<Str("f10"),       F(10)>>,
       <<Str("f11"),       F(11)>>,
       <<Str("f12"),       F(12)>>
    >>

\* A variant with a copy-and-paste slip in one arm: "page_down" gives PageUp.
event_with_modifiers_slip(s, modifiers) ==
    LET arms == [NamedKeys EXCEPT ![10] = <<Str("page_down"), Named("PageUp")>>] IN
    IF \E i \in 1..Len(arms) : arms[i][1] = s
    THEN Ok(Key(arms[CHOOSE i \in 1..Len(arms) : arms[i][1] = s][2], modifiers))
    ELSE IF str_len(s) = 1 /\ is_ascii(Head(s))
         THEN Ok(Key(Char(Head(s)), modifiers))
         ELSE Err(InvalidEvent(s))

\* A variant that counts characters, e.chars().count() == 1, and does not
\* ask for ASCII.
event_with_modifiers_anychar(s, modifiers) ==
    IF \E i \in 1..Len(NamedKeys) : NamedKeys[i][1] = s
    THEN Ok(Key(NamedKeys[CHOOSE i \in 1..Len(NamedKeys) : NamedKeys[i][1] = s][2], modifiers))
    ELSE IF Len(s) = 1
         THEN Ok(Key(Char(Head(s)), modifiers))
         ELSE Err(InvalidEvent(s))

event_with_modifiers(s, modifiers) ==
    IF \E i \in 1..Len(NamedKeys) : NamedKeys[i][1] = s
    THEN LET i == CHOOSE j \in 1..Len(NamedKeys) :
                      NamedKeys[j][1] = s /\ \A k \in 1..(j - 1) : NamedKeys[k][1] # s
         IN  Ok(Key(NamedKeys[i][2], modifiers))
    ELSE IF str_len(s) = 1 /\ is_ascii(Head(s))
         THEN Ok(Key(Char(Head(s)), modifiers))
         ELSE Err(InvalidEvent(s))

(***************************************************************************)
(* impl FromStr for Event                                                  *)
(***************************************************************************)

\* A variant of the closure with the bits of "meta" and "hyper" exchanged.
ModifierNames_swapped ==
    << <<Str("ctrl"),  CONTROL>>,
       <<Str("alt"),   ALT>>,
       <<Str("shift"), SHIFT>>,
       <<Str("super"), SUPER>>,
       <<Str("meta"),  HYPER>>,
       <<Str("hyper"), META>> >>

\* The closure of the map: a modifier token to its bits.
ModifierNames ==
    << <<Str("ctrl"),  CONTROL>>,
       <<Str("alt"),   ALT>>,
       <<Str("shift"), SHIFT>>,
       <<Str("super"), SUPER>>,
       <<Str("meta"),  META>>,
       <<Str("hyper"), HYPER>> >>

\* A variant of the closure that lowercases the token before matching it.
modifier_of_nocase(m) ==
    LET lower == [i \in 1..Len(m) |-> IF m[i] \in 65..90 THEN m[i] + 32 ELSE m[i]] IN
    IF \E i \in 1..Len(ModifierNames) : ModifierNames[i][1] = lower
    THEN ModifierNames[CHOOSE i \in 1..Len(ModifierNames) : ModifierNames[i][1] = lower][2]
    ELSE NONE

modifier_of(m) ==
    IF \E i \in 1..Len(ModifierNames) : ModifierNames[i][1] = m
    THEN ModifierNames[CHOOSE i \in 1..Len(ModifierNames) : ModifierNames[i][1] = m][2]
    ELSE NONE

\* .fold(KeyModifiers::NONE, |acc, m| acc | m) over the mapped tokens
RECURSIVE fold_modifiers(_, _)
fold_modifiers(acc, ms) ==
    IF ms = <<>> THEN acc
    ELSE fold_modifiers(BitOr(acc, modifier_of(Head(ms))), Tail(ms))

\* A variant that hands the whole chord, not its last token, to
\* event_with_modifiers.
from_str_whole_chord(s) ==
    LET modifiers == split(s, Plus) IN
    IF Len(modifiers) > 1
    THEN LET folded == fold_modifiers(NONE, SubSeq(modifiers, 1, Len(modifiers) - 1))
         IN  event_with_modifiers(s, folded)
    ELSE event_with_modifiers(s, NONE)

from_str(s) ==
    LET modifiers == split(s, Plus) IN
    IF Len(modifiers) > 1
    THEN LET key == modifiers[Len(modifiers)]
             folded == fold_modifiers(NONE, SubSeq(modifiers, 1, Len(modifiers) - 1))
         IN  event_with_modifiers(key, folded)
    ELSE event_with_modifiers(s, NONE)

(***************************************************************************)
(* impl Display for Event                                                  *)
(***************************************************************************)

\* Display of an unsigned integer (u8, u16).
RECURSIVE Decimal(_)
Decimal(n) ==
    IF n < 10 THEN <<Ord("0") + n>>
    ELSE Decimal(n \div 10) \o <<Ord("0") + (n % 10)>>

\* format!("{:?}", key) for a KeyCode that is not Char: the derived Debug
\* prints the variant's name, and F(n) with its field.
DebugKeyCode(key) ==
    IF key.kind = "F" THEN Str("F(") \o Decimal(key.n) \o Str(")")
    ELSE Str(key.kind)

\* The flags of KeyModifiers in the order crossterm declares them.
FlagNames ==
    << <<SHIFT, Str("SHIFT")>>, <<CONTROL, Str("CONTROL")>>, <<ALT, Str("ALT")>>,
       <<SUPER, Str("SUPER")>>, <<HYPER, Str("HYPER")>>, <<META, Str("META")>> >>

HasBit(modifiers, bit) == (modifiers \div bit) % 2 = 1

RECURSIVE JoinFlags(_, _)
JoinFlags(modifiers, i) ==
    IF i > Len(FlagNames) THEN <<>>
    ELSE LET rest == JoinFlags(modifiers, i + 1) IN
         IF HasBit(modifiers, FlagNames[i][1])
         THEN FlagNames[i][2] \o (IF rest = <<>> THEN <<>> ELSE Str(" | ") \o rest)
         ELSE rest

\* format!("{:?}", modifiers): the names of the set flags joined by " | "
\* inside the name of the type, the Debug that bitflags derives for it.
DebugKeyModifiers(modifiers) ==
    Str("KeyModifiers(") \o JoinFlags(modifiers, 1) \o Str(")")

\* A variant that writes every key, Char(c) too, in its debug form.
key_text_debug(key) ==
    IF key.kind = "Char" THEN Str("Char('") \o <<key.c>> \o Str("')") ELSE DebugKeyCode(key)

\* let k = if let KeyCode::Char(c) = key { c.to_string() } else { format!("{:?}", key) }
key_text(key) ==
    IF key.kind = "Char" THEN <<key.c>> ELSE DebugKeyCode(key)

\* A variant with the labels of the SUPER and META arms exchanged.
fmt_key_swapped(k, modifiers) ==
    CASE modifiers = NONE    -> k
      [] modifiers = CONTROL -> Str("Ctrl+") \o k
      [] modifiers = ALT     -> Str("Alt+") \o k
      [] modifiers = SHIFT   -> Str("Shift+") \o k
      [] modifiers = SUPER   -> Str("Meta+") \o k
      [] modifiers = META    -> Str("Super+") \o k
      [] modifiers = HYPER   -> Str("Hyper+") \o k
      [] OTHER               -> DebugKeyModifiers(modifiers) \o Str("+") \o k

\* A variant that writes the labels as the parser spells them, in lowercase.
fmt_key_lower(k, modifiers) ==
    CASE modifiers = NONE    -> k
      [] modifiers = CONTROL -> Str("ctrl+") \o k
      [] modifiers = ALT     -> Str("alt+") \o k
      [] modifiers = SHIFT   -> Str("shift+") \o k
      [] modifiers = SUPER   -> Str("super+") \o k
      [] modifiers = META    -> Str("meta+") \o k
      [] modifiers = HYPER   -> Str("hyper+") \o k
      [] OTHER               -> DebugKeyModifiers(modifiers) \o Str("+") \o k

\* match *modifiers { ... } of the Key arm
fmt_key(k, modifiers) ==
    CASE modifiers = NONE    -> k
      [] modifiers = CONTROL -> Str("Ctrl+") \o k
      [] modifiers = ALT     -> Str("Alt+") \o k
      [] modifiers = SHIFT   -> Str("Shift+") \o k
      [] modifiers = SUPER   -> Str("Super+") \o k
      [] modifiers = META    -> Str("Meta+") \o k
      [] modifiers = HYPER   -> Str("Hyper+") \o k
      [] OTHER               -> DebugKeyModifiers(modifiers) \o Str("+") \o k

\* The variants whose arm writes the variant's name alone.
UnitVariants ==
    {"Unknown", "Init", "Render", "FocusLost", "FocusGained", "GetMe",
     "GetChatHistory", "ViewAllMessages"}

\* Display::fmt, on the variants whose payload this file defines.
fmt(e) ==
    CASE e.tag \in UnitVariants -> Str(e.tag)
      [] e.tag = "Resize" ->
            Str("Resize(") \o Decimal(e.width) \o Str(", ") \o Decimal(e.height) \o Str(")")
      [] e.tag = "Key"    -> fmt_key(key_text(e.code), e.mods)
      [] e.tag = "Paste"  -> Str("Paste(") \o e.text \o Str(")")

(***************************************************************************)
(* Inputs                                                                  *)
(***************************************************************************)

\* The longest list of modifier tokens a chord is written with.
MaxMods == 3

\* Tokens written before the key: the six names, and spellings that are not.
ModifierTokens ==
    {ModifierNames[i][1] : i \in 1..Len(ModifierNames)} \cup {Str("CTRL"), <<>>}

\* Key tokens written with any list of modifier tokens.
KeySample ==
    {Str("a"), Str("+"), Str("enter"), Str("page_up"), Str("f12"),
     <<>>, <<233>>, Str("ab"), Str("Enter"), Str("f13")}

\* Key tokens written alone or after one modifier token: every ASCII
\* character, every named key, and characters outside ASCII.
AllKeys ==
    {<<c>> : c \in 0..127} \cup {NamedKeys[i][1] : i \in 1..Len(NamedKeys)}
        \cup {<<233>>, <<8364>>, <<128512>>, <<233, 233>>}

SeqsUpTo(S, n) == UNION {[1..m -> S] : m \in 0..n}

TokenLists ==
    {ms \o <<k>> : ms \in SeqsUpTo(ModifierTokens, MaxMods), k \in KeySample}
        \cup {ms \o <<k>> : ms \in SeqsUpTo(ModifierTokens, 1), k \in AllKeys}

\* The chord a configuration writes: its tokens joined by '+'.
RECURSIVE Join(_)
Join(ts) ==
    IF Len(ts) = 1 THEN ts[1] ELSE ts[1] \o <<Plus>> \o Join(Tail(ts))

KeyCodes ==
    {NamedKeys[i][2] : i \in 1..Len(NamedKeys)} \cup {Char(c) : c \in 0..127}
        \cup {Char(233)}

Events ==
    {Key(code, m) : code \in KeyCodes, m \in 0..63}
        \cup {Unit(v) : v \in UnitVariants}
        \cup {Resize(w, h) : w \in {0, 80, 65535}, h \in {0, 24, 65535}}
        \cup {Paste(s) : s \in {<<>>, Str("ctrl+a"), Str("a")}}

(***************************************************************************)
(* State                                                                   *)
(***************************************************************************)
VARIABLES
    pc,      \* what has been done to the chord or to the event
    tokens,  \* the tokens a chord was written from
    chord,   \* the argument of from_str
    parsed,  \* the value from_str returned
    prev,    \* the value from_str returned before a modifier token was repeated
    event,   \* the argument of fmt
    text     \* the string fmt wrote

vars == <<pc, tokens, chord, parsed, prev, event, text>>

Pending == [tag |-> "Pending"]

Init ==
    /\ parsed = Pending
    /\ prev = Pending
    /\ text = <<>>
    /\ \/ /\ pc = "chord"
          /\ tokens \in TokenLists
          /\ chord = Join(tokens)
          /\ event = Pending
       \/ /\ pc = "event"
          /\ event \in Events
          /\ tokens = <<>>
          /\ chord = <<>>

\* Event::from_str(chord)
FromStr ==
    /\ pc = "chord"
    /\ parsed' = from_str(chord)
    /\ pc' = "parsed"
    /\ UNCHANGED <<tokens, chord, prev, event, text>>

\* A chord that parsed is written again with a copy of its i-th modifier
\* token put before its j-th token, and parsed again.
Repeat(i, j) ==
    /\ pc = "parsed"
    /\ parsed.tag = "Ok"
    /\ i \in 1..(Len(tokens) - 1)
    /\ j \in 1..Len(tokens)
    /\ tokens' = SubSeq(tokens, 1, j - 1) \o <<tokens[i]>> \o SubSeq(tokens, j, Len(tokens))
    /\ chord' = Join(tokens')
    /\ prev' = parsed
    /\ parsed' = from_str(chord')
    /\ pc' = "repeated"
    /\ UNCHANGED <<event, text>>

\* event.to_string()
Display ==
    /\ pc = "event"
    /\ text' = fmt(event)
    /\ pc' = "shown"
    /\ UNCHANGED <<tokens, chord, parsed, prev, event>>

\* Event::from_str(&event.to_string())
FromStrOfDisplay ==
    /\ pc = "shown"
    /\ chord' = text
    /\ parsed' = from_str(text)
    /\ pc' = "reread"
    /\ UNCHANGED <<tokens, prev, event, text>>

Next ==
    \/ FromStr
    \/ \E i \in 1..MaxMods, j \in 1..(MaxMods + 1) : Repeat(i, j)
    \/ Display
    \/ FromStrOfDisplay

Spec == Init /\ [][Next]_vars

(***************************************************************************)
(* The vocabulary of the specification, written out independently of the   *)
(* tables of the code                                                      *)
(***************************************************************************)

\* The named keys of the chord grammar.
SpecNamedKeys ==
    {Str("backspace"), Str("enter"), Str("left"), Str("right"), Str("up"),
     Str("down"), Str("home"), Str("end"), Str("page_up"), Str("page_down"),
     Str("tab"), Str("back_tab"), Str("delete"), Str("insert"), Str("null"),
     Str("esc")} \cup {Str("f") \o Decimal(i) : i \in 1..12}

\* The symbolic keys of the data model.
SpecKeyNames ==
    {"Backspace", "Enter", "Left", "Right", "Up", "Down", "Home", "End",
     "PageUp", "PageDown", "Tab", "BackTab", "Delete", "Insert", "Null", "Esc"}

SpecKeyCodes ==
    {Named(n) : n \in SpecKeyNames} \cup {F(i) : i \in 1..12} \cup {Char(c) : c \in 0..127}

\* page_up is PageUp: the name of a key in the grammar, in the data model.
RECURSIVE Camel(_, _)
Camel(n, up) ==
    IF n = <<>> THEN <<>>
    ELSE IF Head(n) = Ord("_") THEN Camel(Tail(n), TRUE)
    ELSE <<IF up THEN Head(n) - 32 ELSE Head(n)>> \o Camel(Tail(n), FALSE)

ValidKeyToken(k) == k \in SpecNamedKeys \/ (Len(k) = 1 /\ k[1] \in 0..127)

\* codeOf: the KeyCode of a valid key token.
codeOf(k) ==
    IF \E i \in 1..12 : k = Str("f") \o Decimal(i)
    THEN F(CHOOSE i \in 1..12 : k = Str("f") \o Decimal(i))
    ELSE IF k \in SpecNamedKeys
         THEN Named(CHOOSE n \in SpecKeyNames : Str(n) = Camel(k, TRUE))
         ELSE Char(k[1])

SpecModifiers == {Str("ctrl"), Str("alt"), Str("shift"), Str("super"), Str("meta"), Str("hyper")}

\* bitsOf: the bit of a modifier name.
SpecBits ==
    (Str("ctrl") :> CONTROL) @@ (Str("alt") :> ALT) @@ (Str("shift") :> SHIFT)
        @@ (Str("super") :> SUPER) @@ (Str("meta") :> META) @@ (Str("hyper") :> HYPER)

bitsOf(m) == SpecBits[m]

\* The union of a set of distinct single bits.
RECURSIVE UnionOfBits(_)
UnionOfBits(B) ==
    IF B = {} THEN NONE
    ELSE LET b == CHOOSE x \in B : TRUE IN b + UnionOfBits(B \ {b})

PopCount(m) == Cardinality({i \in 1..Len(FlagNames) : HasBit(m, FlagNames[i][1])})

PlusAt(s) == {i \in 1..Len(s) : s[i] = Plus}

\* The key token of a chord: what follows its last '+', or all of it.
KeyToken(s) ==
    IF PlusAt(s) = {} THEN s
    ELSE SubSeq(s, (CHOOSE i \in PlusAt(s) : \A j \in PlusAt(s) : j <= i) + 1, Len(s))

\* The tokens of a chord that precede its key token: the stretches without
\* '+' that end at a '+'.
PrecedingTokens(s) ==
    LET P == PlusAt(s)
        before(b) == CHOOSE a \in {c \in P : c < b} \cup {0} :
                         \A c \in P : c < b => c <= a
    IN  {SubSeq(s, before(b) + 1, b - 1) : b \in P}

ParseDone == pc \in {"parsed", "repeated", "reread"}
Written == pc \in {"parsed", "repeated"}
Shown == pc \in {"shown", "reread"}

\* tokens is a non-empty list of distinct modifier names and a valid key token.
ModifierSubsetChord ==
    /\ Written
    /\ Len(tokens) > 1
    /\ \A i \in 1..(Len(tokens) - 1) : tokens[i] \in SpecModifiers
    /\ \A i, j \in 1..(Len(tokens) - 1) : tokens[i] = tokens[j] => i = j
    /\ ValidKeyToken(tokens[Len(tokens)])

ExpectedOfTokens ==
    Ok(Key(codeOf(tokens[Len(tokens)]),
           UnionOfBits({bitsOf(tokens[i]) : i \in 1..(Len(tokens) - 1)})))

(***************************************************************************)
(* Claims                                                                  *)
(***************************************************************************)

\* C1, as stated: a chord written as a non-empty list of distinct modifier
\* names, in any order, followed by any valid key token (a named key or any
\* single ASCII character) parses to Key(codeOf(k), union of the bits of M).
C1_AnyValidKeyToken ==
    ModifierSubsetChord => parsed = ExpectedOfTokens

\* C1, amended: the same for every valid key token other than the character
\* '+'; the result depends on the set of modifier names only, so on no
\* ordering of it.  With the key token "+" the chord ends in an empty token
\* and parsing fails with InvalidEvent("").
C1_ModifiersInAnyOrder ==
    ModifierSubsetChord =>
        IF tokens[Len(tokens)] = <<Plus>>
        THEN parsed = Err(InvalidEvent(<<>>))
        ELSE parsed = ExpectedOfTokens

C1_Witness ==
    /\ pc = "parsed"
    /\ tokens = <<Str("shift"), Str("hyper"), Str("ctrl"), Str("page_up")>>
    /\ chord = Str("shift+hyper+ctrl+page_up")
    /\ parsed = Ok(Key(Named("PageUp"), SHIFT + HYPER + CONTROL))

\* tokens is one single ASCII character, written alone.
SingleAsciiChord ==
    /\ pc = "parsed"
    /\ Len(tokens) = 1
    /\ Len(tokens[1]) = 1
    /\ tokens[1][1] \in 0..127

\* C2, as stated: the one-character string of every ASCII character c parses
\* to Key(Char(c), None).
C2_EveryAsciiChar ==
    SingleAsciiChord => parsed = Ok(Key(Char(chord[1]), NONE))

\* C2, amended: the one-character string of every ASCII character c other
\* than '+' parses to Key(Char(c), None); the string "+" splits into two
\* empty tokens and fails with InvalidEvent("").
C2_AsciiCharExceptPlus ==
    SingleAsciiChord =>
        IF chord[1] = Plus
        THEN parsed = Err(InvalidEvent(<<>>))
        ELSE parsed = Ok(Key(Char(chord[1]), NONE))

C2_Witness ==
    /\ pc = "parsed"
    /\ chord = <<0>>
    /\ parsed = Ok(Key(Char(0), NONE))

\* C3: every named key, written alone, parses to Key(codeOf(n), None), and no
\* other named key parses to the same event.
C3_NamedKeys ==
    (pc = "parsed" /\ Len(tokens) = 1 /\ tokens[1] \in SpecNamedKeys) =>
        /\ parsed = Ok(Key(codeOf(chord), NONE))
        /\ \A n \in SpecNamedKeys \ {chord} : from_str(n) # parsed

C3_Witness ==
    /\ pc = "parsed"
    /\ chord = Str("page_down")
    /\ parsed = Ok(Key(Named("PageDown"), NONE))

\* C4: a failed parse reports InvalidEvent(t), t the key token of the chord
\* (what follows its last '+', or all of it), which is not the whole chord
\* when the chord has a '+'; the empty string and every chord ending in '+'
\* fail with InvalidEvent("").
C4_ErrorCarriesKeyToken ==
    ParseDone =>
        /\ parsed.tag = "Err" =>
              /\ parsed.val = InvalidEvent(KeyToken(chord))
              /\ PlusAt(chord) # {} => parsed.val.token # chord
        /\ (chord = <<>> \/ Len(chord) \in PlusAt(chord)) =>
              parsed = Err(InvalidEvent(<<>>))

C4_Witness ==
    /\ pc = "parsed"
    /\ chord = Str("ctrl+shift+ab")
    /\ parsed = Err(InvalidEvent(Str("ab")))

\* C5: parsing succeeds exactly when the last '+'-separated token is a valid
\* key token; the modifiers of the result are the bits of the preceding
\* tokens that are one of the six lowercase names, every other preceding
\* token (CTRL, the empty token) adding no bit and raising no error.
C5_OnlyKeyTokenDecides ==
    ParseDone =>
        /\ parsed.tag = "Ok" <=> ValidKeyToken(KeyToken(chord))
        /\ parsed.tag = "Ok" =>
              parsed.val.mods =
                  UnionOfBits({bitsOf(m) : m \in PrecedingTokens(chord) \cap SpecModifiers})

C5_Witness ==
    /\ pc = "parsed"
    /\ chord = Str("CTRL++alt+a")
    /\ parsed = Ok(Key(Char(Ord("a")), ALT))

\* C6: a chord that parses, written again with one more copy of one of its
\* modifier tokens, parses to exactly the same event.
C6_RepeatedModifier ==
    pc = "repeated" => parsed = prev

C6_Witness ==
    /\ pc = "repeated"
    /\ chord = Str("ctrl+alt+ctrl+a")
    /\ prev = Ok(Key(Char(Ord("a")), CONTROL + ALT))
    /\ parsed = prev

\* C7: a key token that is neither a named key nor exactly one ASCII
\* character is rejected with InvalidEvent, and every successful result is a
\* Key event whose code is a named KeyCode or Char(c) with c in 0x00..0x7F.
C7_OnlyRepresentableKeys ==
    ParseDone =>
        /\ ~ ValidKeyToken(KeyToken(chord)) =>
              parsed.tag = "Err" /\ parsed.val.tag = "InvalidEvent"
        /\ parsed.tag = "Ok" =>
              /\ parsed.val.tag = "Key"
              /\ parsed.val.code \in SpecKeyCodes
              /\ parsed.val.mods \in 0..63

C7_Witness ==
    /\ pc = "parsed"
    /\ chord = Str("ctrl+") \o <<233>>
    /\ parsed = Err(InvalidEvent(<<233>>))

\* The text of a key: the character of Char(c), the symbolic name otherwise.
SpecKeyText(code) ==
    IF code.kind = "Char" THEN <<code.c>>
    ELSE IF code.kind = "F" THEN Str("F(") \o Decimal(code.n) \o Str(")")
    ELSE Str(CHOOSE n \in SpecKeyNames : code = Named(n))

\* The label written for each single-modifier constant.
SpecLabels ==
    (CONTROL :> Str("Ctrl+")) @@ (ALT :> Str("Alt+")) @@ (SHIFT :> Str("Shift+"))
        @@ (SUPER :> Str("Super+")) @@ (META :> Str("Meta+")) @@ (HYPER :> Str("Hyper+"))

\* C8: Key(code, mods) is written as the key alone when mods is None, as
\* Ctrl+k, Alt+k, Shift+k, Super+k, Meta+k or Hyper+k when mods is one of
\* the six single flags, and as the debug form of the bit-set, '+' and the
\* key for every set of two or more flags; k is the character of Char(c)
\* and the symbolic name of any other key.
C8_DisplayOfKey ==
    (Shown /\ event.tag = "Key") =>
        LET k == SpecKeyText(event.code)
            m == event.mods
        IN  /\ m = NONE => text = k
            /\ PopCount(m) = 1 => m \in DOMAIN SpecLabels /\ text = SpecLabels[m] \o k
            /\ PopCount(m) >= 2 => text = DebugKeyModifiers(m) \o <<Plus>> \o k

C8_Witness ==
    /\ pc = "shown"
    /\ event = Key(F(3), SHIFT + CONTROL)
    /\ text = Str("KeyModifiers(SHIFT | CONTROL)+F(3)")

\* C9: Key(Char(c), None) is written as the one-character string of c, for
\* every ASCII character c.
C9_DisplayOfChar ==
    (Shown /\ event.tag = "Key" /\ event.mods = NONE
           /\ event.code \in {Char(c) : c \in 0..127}) =>
        text = <<event.code.c>>

C9_Witness ==
    /\ pc = "shown"
    /\ event = Key(Char(Plus), NONE)
    /\ text = Str("+")

\* C10: parsing the text written for Key(code, mods) gives the event back
\* exactly when it is Key(Char(c), None) with c an ASCII character other
\* than '+'; for a named key, a non-empty modifier set or Char('+') it fails
\* with InvalidEvent or gives a different event.
C10_RoundTrip ==
    (pc = "reread" /\ event.tag = "Key" /\ event.code \in SpecKeyCodes) =>
        /\ parsed = Ok(event) <=>
              /\ event.code.kind = "Char"
              /\ event.code.c # Plus
              /\ event.mods = NONE
        /\ parsed # Ok(event) =>
              \/ parsed.tag = "Err" /\ parsed.val.tag = "InvalidEvent"
              \/ parsed.tag = "Ok" /\ parsed.val # event

C10_Witness ==
    /\ pc = "reread"
    /\ event = Key(Char(Ord("a")), CONTROL)
    /\ text = Str("Ctrl+a")
    /\ parsed = Ok(Key(Char(Ord("a")), NONE))

=============================================================================
